---- MODULE Spec2Model ----
(***************************************************************************)
(* Model of go-app's server-side Handler (package app): the lazy one-time  *)
(* initialisation behind sync.Once, the request dispatch of ServeHTTP, the *)
(* PWA resource cache and the fetch-and-cache serving of proxy resources.  *)
(* Strings are Go strings; maps are functions whose DOMAIN is the key set. *)
(***************************************************************************)
EXTENDS Integers, Sequences, FiniteSets, Bags, TLC

VARIABLES
    h,          \* the Handler: its configuration and its derived fields
    once,       \* h.once (sync.Once): done flag and mutex
    req,        \* the bag of ServeHTTP calls in flight, one per goroutine
    osEnv,      \* the process environment written by os.Setenv
    nInit,      \* history: how many times Handler.init was entered
    nSetenv,    \* history: how many times makeAppJS wrote the environment
    first,      \* history: per proxy path, the first item answered from upstream
    settled,    \* history: per proxy path, item answered with no fetch pending
    halted      \* the process died of an unrecovered panic

vars == <<h, once, req, osEnv, nInit, nSetenv, first, settled, halted>>

----------------------------------------------------------------------------
(* Bounds of the model.                                                    *)

\* Number of ServeHTTP calls that may be in flight at the same time.
MaxInFlight == 2

----------------------------------------------------------------------------
(* Go string helpers (package strings).                                    *)

HasPrefix(s, p) == Len(s) >= Len(p) /\ SubSeq(s, 1, Len(p)) = p

HasSuffix(s, p) == Len(s) >= Len(p) /\ SubSeq(s, Len(s) - Len(p) + 1, Len(s)) = p

TrimPrefix(s, p) == IF HasPrefix(s, p) THEN SubSeq(s, Len(p) + 1, Len(s)) ELSE s

\* The characters the model's strings are made of, in ascending byte order.
Ascii == " \"#%-./0123456789:=ABCDEFGHIJKLMNOPQRSTUVWXYZ_abcdefghijklmnopqrstuvwxyz{}"

UpperCase == "ABCDEFGHIJKLMNOPQRSTUVWXYZ"

LowerCase == "abcdefghijklmnopqrstuvwxyz"

Char(s, i) == SubSeq(s, i, i)

Ord(c) == CHOOSE i \in 1..Len(Ascii) : Char(Ascii, i) = c

LowerChar(c) ==
    IF \E i \in 1..Len(UpperCase) : Char(UpperCase, i) = c
    THEN Char(LowerCase, CHOOSE i \in 1..Len(UpperCase) : Char(UpperCase, i) = c)
    ELSE c

\* strings.ToLower, computed by halves.
RECURSIVE ToLower(_)
ToLower(s) ==
    IF Len(s) = 0 THEN ""
    ELSE IF Len(s) = 1 THEN LowerChar(s)
    ELSE ToLower(SubSeq(s, 1, Len(s) \div 2))
            \o ToLower(SubSeq(s, Len(s) \div 2 + 1, Len(s)))

\* strings.Compare(a, b) < 0: byte-wise lexicographic order.
StrLess(a, b) ==
    LET n    == IF Len(a) < Len(b) THEN Len(a) ELSE Len(b)
        diff == {i \in 1..n : Char(a, i) # Char(b, i)}
    IN  IF diff = {} THEN Len(a) < Len(b)
        ELSE LET i == CHOOSE x \in diff : \A y \in diff : x <= y
             IN  Ord(Char(a, i)) < Ord(Char(b, i))

\* strings.Split(v, " "): the fields between single spaces, empty ones kept.
Split(v) ==
    LET spaces == {i \in 1..Len(v) : Char(v, i) = " "}
        \* the position of the k-th space; 0 and Len(v) + 1 bound the string
        cut(k) == IF k = 0 THEN 0
                  ELSE IF k > Cardinality(spaces) THEN Len(v) + 1
                  ELSE CHOOSE i \in spaces : Cardinality({j \in spaces : j <= i}) = k
    IN  [k \in 1..(Cardinality(spaces) + 1) |-> SubSeq(v, cut(k - 1) + 1, cut(k) - 1)]

Range(f) == {f[x] : x \in DOMAIN f}

\* A map with key k set to v.
MapSet(m, k, v) == [x \in DOMAIN m \cup {k} |-> IF x = k THEN v ELSE m[x]]

EmptyMap == [x \in {} |-> ""]

\* A nil map or pointer of the handler, before init assigns it.
Nil == [nil |-> TRUE]

----------------------------------------------------------------------------
(* httpResource and its parser.                                            *)

\* The loop of parseHTTPResource over the fields. The strings of the model
\* hold no white space but the separating spaces, so strings.TrimSpace
\* leaves every field as it is.
\* The loop that keeps the first URL it meets.
RECURSIVE parseFieldsFirstURL(_, _, _)
parseFieldsFirstURL(fields, i, res) ==
    IF i > Len(fields) THEN res
    ELSE LET elem == ToLower(fields[i]) IN
         parseFieldsFirstURL(fields, i + 1,
            IF elem = "" THEN res
            ELSE IF elem = "crossorigin" THEN [res EXCEPT !.CrossOrigin = "true"]
            ELSE IF HasPrefix(elem, "crossorigin=")
                 THEN [res EXCEPT !.CrossOrigin = TrimPrefix(elem, "crossorigin=")]
            ELSE IF elem = "defer" THEN [res EXCEPT !.LoadingMode = "defer"]
            ELSE IF elem = "async" THEN [res EXCEPT !.LoadingMode = "async"]
            ELSE IF res.URL = "" THEN [res EXCEPT !.URL = elem]
            ELSE res)

RECURSIVE parseFields(_, _, _)
parseFields(fields, i, res) ==
    IF i > Len(fields) THEN res
    ELSE LET elem == ToLower(fields[i]) IN
         parseFields(fields, i + 1,
            IF elem = "" THEN res
            ELSE IF elem = "crossorigin" THEN [res EXCEPT !.CrossOrigin = "true"]
            ELSE IF HasPrefix(elem, "crossorigin=")
                 THEN [res EXCEPT !.CrossOrigin = TrimPrefix(elem, "crossorigin=")]
            ELSE IF elem = "defer" THEN [res EXCEPT !.LoadingMode = "defer"]
            ELSE IF elem = "async" THEN [res EXCEPT !.LoadingMode = "async"]
            ELSE [res EXCEPT !.URL = elem])

parseHTTPResource(v) ==
    parseFields(Split(v), 1, [URL |-> "", LoadingMode |-> "", CrossOrigin |-> ""])

isRemoteLocation(path) == HasPrefix(path, "https://") \/ HasPrefix(path, "http://")

isStaticResourcePath(path) == HasPrefix(path, "/web/") \/ HasPrefix(path, "web/")

----------------------------------------------------------------------------
(* Collaborators the handler consumes.                                     *)

\* URL prefix of the remote bucket resolver of the model.
BucketURL == "https://cdn.test"

\* strings.Trim(s, "/").
TrimSlashes(s) ==
    LET keep == {i \in 1..Len(s) : Char(s, i) # "/"} IN
    IF keep = {} THEN ""
    ELSE SubSeq(s, CHOOSE i \in keep : \A j \in keep : i <= j,
                   CHOOSE i \in keep : \A j \in keep : i >= j)

\* ResourceResolver.Resolve: LocalDir("") keeps the location, a remote bucket
\* prefixes the static resources with its URL.
Resolve(kind, location) ==
    IF kind # "RemoteBucket" THEN location
    ELSE IF location = "" THEN "/"
    ELSE IF isRemoteLocation(location) \/ ~isStaticResourcePath(location) THEN location
    ELSE BucketURL \o "/" \o TrimSlashes(location)

\* h.Resources.(http.Handler): only the local directory resolver serves files.
IsFileServer(kind) == kind = "LocalDir"

\* text/template: the action opened by a lone "{{" is never closed, Parse
\* fails and template.Must panics.
TemplateParses(t) == t # "{{"

\* Template substitution: the output is the template text with its data.
Execute(t, data) == t \o "(" \o data \o ")"

RECURSIVE JoinQuoted(_, _)
JoinQuoted(list, i) ==
    IF i > Len(list) THEN ""
    ELSE (IF i > 1 THEN "," ELSE "") \o "\"" \o list[i] \o "\"" \o JoinQuoted(list, i + 1)

\* jsonString of a string list.
jsonString(list) == "[" \o JoinQuoted(list, 1) \o "]"

DefaultAppWorkerJS == "app-worker.js"

appJS == "app.js"

manifestJSON == "manifest.webmanifest"

appCSS == "goapp{}"

wasmExecJS == "wasm_exec.js"

defaultThemeColor == "#2d2c2c"

\* The routes registered by the application (app.Route): routes.routed.
routed(path) == path = "/"

----------------------------------------------------------------------------
(* memoryCache: a map from path to cacheItem behind a read-write mutex.    *)

newMemoryCache == [x \in {} |-> [Path |-> "", ContentType |-> "",
                                ContentEncoding |-> "", Body |-> ""]]

cacheItem(path, ctype, cenc, body) ==
    [Path |-> path, ContentType |-> ctype, ContentEncoding |-> cenc, Body |-> body]

CacheSet(c, i) == MapSet(c, i.Path, i)

CacheHas(c, path) == c # Nil /\ path \in DOMAIN c

----------------------------------------------------------------------------
(* Handler.init: the ten steps, each a function of the handler.            *)

initVersion(hh, hash) ==
    LET v == IF hh.Version = "" THEN hash ELSE hh.Version IN
    [hh EXCEPT !.Version = v, !.etag = "\"" \o v \o "\""]

initStaticResources(hh) ==
    IF hh.Resources = "nil" THEN [hh EXCEPT !.Resources = "LocalDir"] ELSE hh

\* The libs map after ranging over h.Libraries[i..]: a later library with
\* the same path overwrites an earlier one.
RECURSIVE collectLibraries(_, _, _)
collectLibraries(list, i, libs) ==
    IF i > Len(list) THEN libs
    ELSE collectLibraries(list, i + 1,
            IF ~HasPrefix(list[i].path, "/") \/ Len(list[i].styles) = 0
            THEN libs
            ELSE MapSet(libs, list[i].path, list[i].styles))

initLibraries(hh) ==
    [hh EXCEPT !.libraries = collectLibraries(hh.Libraries, 1, EmptyMap)]

\* The orders in which a range over a map with key set S may visit the keys.
Orders(S) ==
    {o \in [1..Cardinality(S) -> S] : \A i, j \in DOMAIN o : i # j => o[i] # o[j]}

\* The declared styles put before the library styles.
initLinksUserFirst(hh, order) ==
    [hh EXCEPT !.Styles = <<"/app.css">> \o hh.Styles \o order]

\* order: the order in which the range over h.libraries visited its keys.
initLinks(hh, order) ==
    [hh EXCEPT !.Styles = <<"/app.css">> \o order \o hh.Styles]

initServiceWorker(hh) ==
    IF hh.ServiceWorkerTemplate = ""
    THEN [hh EXCEPT !.ServiceWorkerTemplate = DefaultAppWorkerJS]
    ELSE hh

DefaultIconPNG ==
    "https://raw.githubusercontent.com/maxence-charriere/go-app/master/docs/web/icon.png"

DefaultIconSVG ==
    "https://raw.githubusercontent.com/maxence-charriere/go-app/master/docs/web/icon.svg"

\* The placeholders used only when Default and SVG are both unset.
initIconBothUnset(hh) ==
    LET both == hh.Icon.Default = "" /\ hh.Icon.SVG = ""
        i1 == IF both
              THEN [hh.Icon EXCEPT !.Default = DefaultIconPNG, !.Large = DefaultIconPNG,
                                   !.SVG = DefaultIconSVG]
              ELSE hh.Icon
    IN  [hh EXCEPT !.Icon = IF i1.Maskable = "" THEN [i1 EXCEPT !.Maskable = i1.Default]
                            ELSE i1]

initIcon(hh) ==
    LET i1 == IF hh.Icon.Default = ""
              THEN [hh.Icon EXCEPT !.Default = DefaultIconPNG, !.Large = DefaultIconPNG]
              ELSE hh.Icon
        i2 == IF i1.Maskable = "" THEN [i1 EXCEPT !.Maskable = i1.Default] ELSE i1
        i3 == IF i2.SVG = "" THEN [i2 EXCEPT !.SVG = DefaultIconSVG] ELSE i2
    IN  [hh EXCEPT !.Icon = i3]

initPWA(hh) ==
    LET h1 == IF hh.Name = "" /\ hh.ShortName = "" /\ hh.Title = ""
              THEN [hh EXCEPT !.Name = "App PWA"] ELSE hh
        h2 == IF h1.ShortName = "" THEN [h1 EXCEPT !.ShortName = h1.Name] ELSE h1
        h3 == IF h2.Name = "" THEN [h2 EXCEPT !.Name = h2.ShortName] ELSE h2
        h4 == IF h3.BackgroundColor = ""
              THEN [h3 EXCEPT !.BackgroundColor = defaultThemeColor] ELSE h3
        h5 == IF h4.ThemeColor = ""
              THEN [h4 EXCEPT !.ThemeColor = defaultThemeColor] ELSE h4
        h6 == IF h5.Lang = "" THEN [h5 EXCEPT !.Lang = "en"] ELSE h5
    IN  IF h6.LoadingLabel = "" THEN [h6 EXCEPT !.LoadingLabel = "{progress}%"] ELSE h6

initPageContent(hh) ==
    LET h1 == IF hh.HTML = "nil" THEN [hh EXCEPT !.HTML = "Html"] ELSE hh
    IN  IF h1.Body = "nil" THEN [h1 EXCEPT !.Body = "Body"] ELSE h1

\* h.Env after makeAppJS added the reserved keys: they win over user values.
makeAppJSEnv(hh) ==
    LET e0 == IF hh.Env = Nil THEN EmptyMap ELSE hh.Env
        e1 == MapSet(e0, "GOAPP_INTERNAL_URLS", jsonString(hh.InternalURLs))
        e2 == MapSet(e1, "GOAPP_VERSION", hh.Version)
        e3 == MapSet(e2, "GOAPP_STATIC_RESOURCES_URL", Resolve(hh.Resources, "/web"))
    IN  MapSet(e3, "GOAPP_ROOT_PREFIX", Resolve(hh.Resources, "/"))

\* os.Setenv rejects an empty name and a name holding "=".
SetenvFails(k) == k = "" \/ \E i \in 1..Len(k) : Char(k, i) = "="

\* The process environment after the loop of os.Setenv calls over h.Env.
setenvAll(env, e) ==
    [k \in DOMAIN env \cup {k \in DOMAIN e : ~SetenvFails(k)} |->
        IF k \in DOMAIN e /\ ~SetenvFails(k) THEN e[k] ELSE env[k]]

\* The bytes of app.js, from the handler whose Env makeAppJS has completed.
makeAppJS(hh) ==
    Execute(appJS, hh.Env["GOAPP_VERSION"] \o ";" \o hh.Env["GOAPP_STATIC_RESOURCES_URL"]
        \o ";" \o hh.LoadingLabel \o ";" \o Resolve(hh.Resources, "/web/app.wasm")
        \o ";" \o Resolve(hh.Resources, "/app-worker.js"))

\* setResources: the URL set after adding the parsed URL of every entry.
RECURSIVE setResources(_, _, _)
setResources(resources, res, i) ==
    IF i > Len(res) THEN resources
    ELSE setResources(
            IF parseHTTPResource(res[i]).URL # ""
            THEN resources \cup {parseHTTPResource(res[i]).URL} ELSE resources,
            res, i + 1)

\* The keys of the resources map of makeAppWorkerJS.
workerResources(hh) ==
    LET r1 == setResources({}, <<"/app.css", "/app.js", "/manifest.webmanifest",
                                 "/wasm_exec.js", "/", "/web/app.wasm">>, 1)
        r2 == setResources(r1, <<hh.Icon.Default, hh.Icon.Large, hh.Icon.Maskable>>, 1)
        r3 == setResources(r2, hh.Styles, 1)
        r4 == setResources(r3, hh.Fonts, 1)
        r5 == setResources(r4, hh.Scripts, 1)
    IN  setResources(r5, hh.CacheableResources, 1)

\* x inserted into the ascending list at its place.
RECURSIVE insertSorted(_, _)
insertSorted(list, x) ==
    IF list = <<>> THEN <<x>>
    ELSE IF StrLess(x, Head(list)) THEN <<x>> \o list
    ELSE <<Head(list)>> \o insertSorted(Tail(list), x)

\* The keys of S in ascending order.
RECURSIVE Ascending(_)
Ascending(S) ==
    IF S = {} THEN <<>>
    ELSE LET k == CHOOSE x \in S : TRUE IN insertSorted(Ascending(S \ {k}), k)

\* The orders in which the range over the resources map (line 360) is taken
\* to visit its keys: every rotation of the ascending order and of the
\* descending one.
KeyOrders(S) ==
    LET a == Ascending(S)
        n == Len(a)
    IN  {[i \in 1..n |-> a[((i + r) % n) + 1]] : r \in 0..(n - 1)}
          \cup {[i \in 1..n |-> a[n - ((i + r) % n)]] : r \in 0..(n - 1)}

\* Lines 359-362: the resolved URL of every key, in the order of the range.
resolveAll(hh, order) == [i \in DOMAIN order |-> Resolve(hh.Resources, order[i])]

\* Lines 363-365: sort.Slice with strings.Compare, ascending.
RECURSIVE sortSlice(_)
sortSlice(list) ==
    IF list = <<>> THEN <<>>
    ELSE insertSorted(sortSlice(SubSeq(list, 1, Len(list) - 1)), list[Len(list)])

\* The list left by the range alone, the sort not applied.
resourcesToCacheUnsorted(hh, order) == resolveAll(hh, order)

\* resourcesTocache as the template receives it.
resourcesToCache(hh, order) == sortSlice(resolveAll(hh, order))

\* order: the order in which the range over the resources map visited it.
makeAppWorkerJS(hh, order) ==
    Execute(hh.ServiceWorkerTemplate,
        hh.Version \o ";" \o jsonString(resourcesToCache(hh, order)))

manifestScope(hh) ==
    LET scope == Resolve(hh.Resources, "/") IN
    IF scope # "/" /\ ~HasSuffix(scope, "/") THEN scope \o "/" ELSE scope

makeManifestJSON(hh) ==
    Execute(manifestJSON, hh.ShortName \o ";" \o hh.Name \o ";"
        \o Resolve(hh.Resources, hh.Icon.Default) \o ";"
        \o Resolve(hh.Resources, hh.Icon.Large) \o ";"
        \o Resolve(hh.Resources, hh.Icon.SVG) \o ";"
        \o Resolve(hh.Resources, hh.Icon.Maskable) \o ";"
        \o hh.BackgroundColor \o ";" \o hh.ThemeColor \o ";"
        \o manifestScope(hh) \o ";" \o Resolve(hh.Resources, "/"))

\* initPWAResources up to the call of makeAppWorkerJS: the cache holds
\* /wasm_exec.js and /app.js, and h.Env has the reserved keys.
initPWAResourcesHead(hh) ==
    LET h1 == [hh EXCEPT !.Env = makeAppJSEnv(hh)]
        c1 == CacheSet(newMemoryCache,
                cacheItem("/wasm_exec.js", "application/javascript", "", wasmExecJS))
        c2 == CacheSet(c1, cacheItem("/app.js", "application/javascript", "", makeAppJS(h1)))
    IN  [h1 EXCEPT !.cachedPWAResources = c2]

\* initPWAResources when every template renders.
initPWAResources(hh, order) ==
    LET h1 == initPWAResourcesHead(hh)
        c3 == CacheSet(h1.cachedPWAResources,
                cacheItem("/app-worker.js", "application/javascript", "", makeAppWorkerJS(h1, order)))
        c4 == CacheSet(c3, cacheItem("/manifest.webmanifest", "application/manifest+json",
                                     "", makeManifestJSON(h1)))
        c5 == CacheSet(c4, cacheItem("/app.css", "text/css", "", appCSS))
    IN  [h1 EXCEPT !.cachedPWAResources = c5]

ReservedPaths ==
    {"/wasm_exec.js", "/goapp.js", "/app.js", "/app-worker.js", "/manifest.json",
     "/manifest.webmanifest", "/app.css", "/app.wasm", "/goapp.wasm", "/"}

ProxyResource(path, resourcePath) == [Path |-> path, ResourcePath |-> resourcePath]

\* The collection that does not look at the reserved paths.
RECURSIVE collectProxyResourcesKeepReserved(_, _, _)
collectProxyResourcesKeepReserved(list, i, resources) ==
    IF i > Len(list) THEN resources
    ELSE collectProxyResourcesKeepReserved(list, i + 1,
            IF HasPrefix(list[i].Path, "/") /\ HasPrefix(list[i].ResourcePath, "/web/")
            THEN MapSet(resources, list[i].Path, list[i])
            ELSE resources)

RECURSIVE collectProxyResources(_, _, _)
collectProxyResources(list, i, resources) ==
    IF i > Len(list) THEN resources
    ELSE collectProxyResources(list, i + 1,
            IF list[i].Path \in ReservedPaths THEN resources
            ELSE IF HasPrefix(list[i].Path, "/") /\ HasPrefix(list[i].ResourcePath, "/web/")
                 THEN MapSet(resources, list[i].Path, list[i])
            ELSE resources)

\* No default is injected.
withDefaultSkipped(resources, path, resourcePath) == resources

\* The default replaces what the configuration declared for the path.
withDefaultAlways(resources, path, resourcePath) ==
    MapSet(resources, path, ProxyResource(path, resourcePath))

withDefault(resources, path, resourcePath) ==
    IF path \in DOMAIN resources THEN resources
    ELSE MapSet(resources, path, ProxyResource(path, resourcePath))

initProxyResources(hh) ==
    LET r0 == collectProxyResources(hh.ProxyResources, 1,
                [x \in {} |-> ProxyResource("", "")])
        r1 == withDefault(r0, "/robots.txt", "/web/robots.txt")
        r2 == withDefault(r1, "/sitemap.xml", "/web/sitemap.xml")
        r3 == withDefault(r2, "/ads.txt", "/web/ads.txt")
    IN  [hh EXCEPT !.cachedProxyResources = newMemoryCache, !.proxyResources = r3]

----------------------------------------------------------------------------
(* http.ResponseWriter as ServeHTTP uses it.                               *)

StatusOK == 200

StatusNotModified == 304

StatusNotFound == 404

StatusInternalServerError == 500

\* A response writer nothing was written to: status 0 is "no header sent".
NewWriter == [header |-> EmptyMap, status |-> 0, body |-> ""]

SetHeader(w, k, v) == [w EXCEPT !.header = MapSet(@, k, v)]

\* Only the first WriteHeader takes effect.
WriteHeader(w, code) == IF w.status = 0 THEN [w EXCEPT !.status = code] ELSE w

\* Write sends the header with status 200 when none was sent.
Write(w, body) == [WriteHeader(w, StatusOK) EXCEPT !.body = @ \o body]

\* http.NotFound: http.Error with "404 page not found".
NotFound(w) ==
    Write(WriteHeader(SetHeader(SetHeader(w, "Content-Type", "text/plain; charset=utf-8"),
                                "X-Content-Type-Options", "nosniff"),
                      StatusNotFound),
          "404 page not found")

\* The file server of the resolver, given the request path: the file's bytes
\* or its own not-found answer.
FileServe(w, path, found) ==
    IF found THEN Write(w, "file:" \o path) ELSE NotFound(w)

----------------------------------------------------------------------------
(* One ServeHTTP call.                                                     *)

NoItem == cacheItem("", "", "", "")

\* History of a call: what had been answered for its path when it arrived.
\* first and settled are the history variables at that time; failed holds the
\* upstream failures of the calls for the path that had returned by then.
NoSeen == [first |-> NoItem, settled |-> NoItem, failed |-> {}]

\* pc: "once" inside once.Do, waiting for it to return;
\* "init" running Handler.init at step `step`; "fetch" in http.Get;
\* "store" holding the upstream item, before the cache Set; "panicked"
\* unwinding a panic; "done" the call returned. A call that has not read its
\* request yet has the empty path and header.
IdleReq ==
    [pc |-> "once", path |-> "", inm |-> "", step |-> 0, res |-> "", u |-> "",
     item |-> NoItem, w |-> NewWriter, branches |-> {}, did |-> {}, to |-> "",
     up |-> "", seen |-> NoSeen]

NewRequest(path, inm) == [IdleReq EXCEPT !.path = path, !.inm = inm]

At(m, k, d) == IF k \in DOMAIN m THEN m[k] ELSE d

\* The headers without the ETag.
responseHeadersNoETag(hh, w) == SetHeader(w, "Cache-Control", "no-cache")

\* Lines 471-472: the two headers every response starts with.
responseHeaders(hh, w) ==
    SetHeader(SetHeader(w, "Cache-Control", "no-cache"), "ETag", hh.etag)

\* The check against the bare version instead of the quoted ETag.
notModifiedByVersion(hh, rq) == rq.inm = hh.Version

\* The check that takes any If-None-Match header for a match.
notModifiedIfPresent(hh, rq) == rq.inm # ""

\* Line 475: the conditional-fetch check.
notModified(hh, rq) == rq.inm = hh.etag

\* Lines 480-483: a leading "/<version>" segment is dropped.
trimVersion(hh, path) ==
    IF HasPrefix(path, "/" \o hh.Version \o "/")
    THEN TrimPrefix(path, "/" \o hh.Version)
    ELSE path

\* The switch without its renaming cases.
aliasNone(path) == path

\* Lines 492-496: the two renaming cases of the switch.
alias(path) ==
    IF path = "/goapp.js" THEN "/app.js"
    ELSE IF path = "/manifest.json" THEN "/manifest.webmanifest"
    ELSE path

\* The dispatch that looks into the library map before the proxy table.
dispatchLibraryFirst(hh, path) ==
    IF CacheHas(hh.cachedPWAResources, path) THEN "pwa"
    ELSE IF hh.libraries # Nil /\ path \in DOMAIN hh.libraries THEN "library"
    ELSE IF hh.proxyResources # Nil /\ path \in DOMAIN hh.proxyResources THEN "proxy"
    ELSE "page"

\* Lines 510-525: which of the four targets answers the path.
dispatch(hh, path) ==
    IF CacheHas(hh.cachedPWAResources, path) THEN "pwa"
    ELSE IF hh.proxyResources # Nil /\ path \in DOMAIN hh.proxyResources THEN "proxy"
    ELSE IF hh.libraries # Nil /\ path \in DOMAIN hh.libraries THEN "library"
    ELSE "page"

serveCachedItem(w, i) ==
    LET w1 == SetHeader(w, "Content-Length", ToString(Len(i.Body)))
        w2 == SetHeader(w1, "Content-Type", i.ContentType)
        w3 == IF i.ContentEncoding # ""
              THEN SetHeader(w2, "Content-Encoding", i.ContentEncoding) ELSE w2
    IN  Write(WriteHeader(w3, StatusOK), i.Body)

serveLibrary(w, library) ==
    Write(SetHeader(SetHeader(w, "Content-Length", ToString(Len(library))),
                    "Content-Type", "text/css"),
          library)

\* The document the engine encodes for the page at urlPath.
pageHTML(hh, urlPath) ==
    "<html lang=" \o hh.Lang \o "><title>" \o hh.Title \o "</title>" \o urlPath

\* servePage, given whether engine.Encode succeeds.
servePage(hh, w, urlPath, encodes) ==
    IF ~routed(urlPath) THEN NotFound(w)
    ELSE IF ~encodes THEN WriteHeader(w, StatusInternalServerError)
    ELSE Write(SetHeader(SetHeader(w, "Content-Length",
                                   ToString(Len(pageHTML(hh, urlPath)))),
                         "Content-Type", "text/html"),
               pageHTML(hh, urlPath))

\* Lines 541-552: the URL serveProxyResource fetches.
proxyURL(hh, resource) ==
    IF IsFileServer(hh.Resources)
    THEN "http://" \o "app.test" \o resource.ResourcePath
    ELSE Resolve(hh.Resources, resource.ResourcePath)

\* The lookup that never finds an item.
proxyCacheNeverHits(hh, path) == NoItem

\* Line 554: the proxy cache lookup.
proxyCacheGet(hh, path) ==
    IF CacheHas(hh.cachedProxyResources, path)
    THEN hh.cachedProxyResources[path] ELSE NoItem

Returned(rq, w, branch, did) ==
    [rq EXCEPT !.pc = "done", !.w = w, !.branches = @ \cup {branch}, !.did = @ \cup did]

\* serveProxyResource up to the upstream fetch: served from the proxy cache,
\* or on its way to http.Get.
serveProxyResource(hh, rq, w, resource) ==
    LET r1 == [rq EXCEPT !.res = resource.Path, !.u = proxyURL(hh, resource)]
        i  == proxyCacheGet(hh, resource.Path)
    IN  IF i # NoItem
        THEN Returned(r1, serveCachedItem(w, i), "proxy", {"lookup"})
        ELSE [r1 EXCEPT !.pc = "fetch", !.w = w, !.branches = @ \cup {"proxy"},
                        !.did = @ \cup {"lookup"}]

\* Lines 510-525 for the normalised path: the calls that may result.
serveDispatched(hh, rq, w, path) ==
    LET target == dispatch(hh, path) IN
    IF target = "pwa"
    THEN {Returned(rq, serveCachedItem(w, hh.cachedPWAResources[path]), "pwa", {"lookup"})}
    ELSE IF target = "proxy"
    THEN {serveProxyResource(hh, [rq EXCEPT !.did = @ \cup {"lookup"}], w,
                             hh.proxyResources[path])}
    ELSE IF target = "library"
    THEN {Returned(rq, serveLibrary(w, hh.libraries[path]), "library", {"lookup"})}
    ELSE {Returned([rq EXCEPT !.to = rq.path], servePage(hh, w, rq.path, encodes),
                   "page", {"lookup", "render"}) : encodes \in BOOLEAN}

\* ServeHTTP after once.Do returned (lines 471-526), up to the first point
\* where the call waits: the set of states the call may be in then.
ServeHTTP(hh, rq) ==
    LET w    == responseHeaders(hh, NewWriter)
        path == trimVersion(hh, rq.path)
    IN  IF notModified(hh, rq)
        THEN {Returned(rq, WriteHeader(w, StatusNotModified), "notmodified", {})}
        ELSE IF IsFileServer(hh.Resources) /\ HasPrefix(path, "/web/")
        THEN {Returned([rq EXCEPT !.to = rq.path], FileServe(w, rq.path, found),
                       "static", {"delegate"}) : found \in BOOLEAN}
        ELSE IF path \in {"/app.wasm", "/goapp.wasm"}
        THEN IF IsFileServer(hh.Resources)
             THEN {Returned([rq EXCEPT !.to = Resolve(hh.Resources, "/web/app.wasm")],
                            FileServe(w, Resolve(hh.Resources, "/web/app.wasm"), found),
                            "wasm", {"delegate"}) : found \in BOOLEAN}
             ELSE {Returned(rq, WriteHeader(w, StatusNotFound), "wasm", {})}
        ELSE serveDispatched(hh, rq, w, alias(path))

----------------------------------------------------------------------------
(* The configurations and the inputs of the model.                         *)

\* What the SHA-1 of the start time may be when Version is unset.
TimeHashes == {"da39"}

\* Handler.Libraries: what Styles() of each library returns. /robots.txt is
\* also a proxy path; the last two are refused by initLibraries.
LibrariesA ==
    << [path |-> "/lib.css", styles |-> "a{}"],
       [path |-> "/robots.txt", styles |-> "r{}"],
       [path |-> "nolead.css", styles |-> "n{}"],
       [path |-> "/empty.css", styles |-> ""] >>

\* /app.css is also a PWA resource; /lib.css is declared twice.
LibrariesB ==
    << [path |-> "/lib.css", styles |-> "a{}"],
       [path |-> "/app.css", styles |-> "c{}"],
       [path |-> "/lib.css", styles |-> "b{}"] >>

\* Handler.ProxyResources: one valid entry, one on a reserved path, one whose
\* resource is outside /web/.
ConfiguredProxyResources ==
    << ProxyResource("/p.txt", "/web/p.txt"),
       ProxyResource("/app.js", "/web/evil.js"),
       ProxyResource("/etc", "/etc/passwd") >>

\* Handler.Styles as the application declares it.
ConfiguredStyles == <<"/web/main.css">>

\* A handler as the application declares it, before the first request.
NewHandler(res, v, t, libs, env) ==
    [Name |-> "", ShortName |-> "", Title |-> "", Lang |-> "",
     Icon |-> [Default |-> "", Large |-> "", SVG |-> "", Maskable |-> ""],
     BackgroundColor |-> "", ThemeColor |-> "", LoadingLabel |-> "",
     Libraries |-> libs,
     Styles |-> ConfiguredStyles, Fonts |-> <<>>,
     Scripts |-> <<"https://x.test/a.js crossorigin async">>,
     CacheableResources |-> <<"web/main.css">>,
     HTML |-> "nil", Body |-> "nil",
     Env |-> env,
     InternalURLs |-> <<>>,
     ProxyResources |-> ConfiguredProxyResources,
     Resources |-> res, Version |-> v, ServiceWorkerTemplate |-> t,
     etag |-> "", libraries |-> Nil, proxyResources |-> Nil,
     cachedProxyResources |-> Nil, cachedPWAResources |-> Nil]

\* The configurations of the model: the defaults with a release version; a
\* remote bucket with no version and no Env; a malformed service-worker
\* template.
Handlers ==
    {NewHandler("nil", "v1", "", LibrariesA, [GOAPP_VERSION |-> "mine", FOO |-> "bar"]),
     NewHandler("RemoteBucket", "", "", LibrariesB, Nil),
     NewHandler("LocalDir", "v1", "{{", LibrariesA, [FOO |-> "bar"])}

\* The longest Handler.ProxyResources list of the configurations below.
MaxProxyResources == 2

\* The declarations a ProxyResources list is made of: a valid one, one on a
\* reserved path, one whose resource is outside /web/, one whose path has no
\* leading slash, two that redeclare /robots.txt and one that redeclares it
\* with a resource outside /web/.
ProxyEntries ==
    {ProxyResource("/p.txt", "/web/p.txt"),
     ProxyResource("/app.js", "/web/evil.js"),
     ProxyResource("/etc", "/etc/passwd"),
     ProxyResource("p.txt", "/web/p.txt"),
     ProxyResource("/robots.txt", "/web/my-robots.txt"),
     ProxyResource("/robots.txt", "/web/other-robots.txt"),
     ProxyResource("/robots.txt", "/private/robots.txt")}

\* Handlers that differ in their ProxyResources only.
ProxyHandlers ==
    {[NewHandler("nil", "v1", "", <<>>, Nil) EXCEPT !.ProxyResources = list] :
        list \in UNION {[1..n -> ProxyEntries] : n \in 0..MaxProxyResources}}

\* Handler.Icon: every field unset or set by the application.
Icons ==
    [Default : {"", "/web/icon.png"}, Large : {"", "/web/large.png"},
     SVG : {"", "/web/icon.svg"}, Maskable : {"", "/web/mask.png"}]

\* Handlers that differ in their Icon only.
IconHandlers ==
    {[NewHandler("nil", "v1", "", <<>>, Nil) EXCEPT !.Icon = icon] : icon \in Icons}

\* Styles, Fonts, Scripts and CacheableResources declarations: none; one
\* stylesheet declared twice under two spellings; entries with attributes,
\* an upper-case URL and an entry that holds attributes only.
ResourceLists ==
    {[Styles |-> <<>>, Fonts |-> <<>>, Scripts |-> <<>>, CacheableResources |-> <<>>],
     [Styles |-> <<"/web/main.css">>, Fonts |-> <<>>,
      Scripts |-> <<"https://x.test/a.js crossorigin async">>,
      CacheableResources |-> <<"web/main.css">>],
     [Styles |-> <<"/web/main.css", "/web/main.css">>,
      Fonts |-> <<"/web/F.woff2 crossorigin=anonymous">>,
      Scripts |-> <<"defer">>,
      CacheableResources |-> <<"/web/c.png", "https://x.test/a.js">>]}

\* Handlers that differ in what the service worker has to cache.
WorkerHandlers ==
    {[NewHandler(res, "v1", "", libs, Nil) EXCEPT
         !.Icon = icon, !.Styles = l.Styles, !.Fonts = l.Fonts,
         !.Scripts = l.Scripts, !.CacheableResources = l.CacheableResources] :
        res \in {"nil", "RemoteBucket"}, libs \in {<<>>, LibrariesB},
        l \in ResourceLists,
        icon \in {i \in Icons : (i.Default = "") = (i.Large = "")
                                /\ (i.Default = "") = (i.Maskable = "")}}

\* Handler.Libraries: none, one library, and the two lists above.
LibraryHandlers ==
    {NewHandler(res, "v1", "", libs, Nil) :
        res \in {"nil", "RemoteBucket"},
        libs \in {<<>>, <<[path |-> "/lib.css", styles |-> "a{}"]>>,
                  LibrariesA, LibrariesB}}

\* The configurations a single client is served from, one call at a time.
SerialHandlers ==
    Handlers \cup ProxyHandlers \cup IconHandlers \cup WorkerHandlers
        \cup LibraryHandlers

\* r.URL.Path of the requests of that client: a path of every dispatch
\* branch, and the same path behind the version.
SerialPaths ==
    {"/", "/nope", "/app.js", "/goapp.js", "/app.css", "/app.wasm", "/web/a.png",
     "/robots.txt", "/lib.css", "/manifest.json", "/manifest.webmanifest",
     "/goapp.wasm"}
    \cup {"/v1/", "/v1/nope", "/v1/app.js", "/v1/goapp.js", "/v1/app.wasm",
          "/v1/web/a.png", "/v1/robots.txt", "/v1/lib.css", "/v1/goapp.wasm"}

\* r.URL.Path of the requests.
RequestPaths ==
    {"/", "/nope", "/goapp.js", "/app.css", "/app.wasm", "/web/a.png",
     "/robots.txt", "/v1/robots.txt", "/lib.css"}

\* The If-None-Match header of the requests: absent, the ETag of version v1,
\* the ETag of version da39. Each handler has one of the two as its ETag and
\* the other as a stale one.
Conditionals == {"", "\"v1\"", "\"da39\""}

\* What the upstream of a proxy resource may hold.
UpstreamItems ==
    {[ContentType |-> "text/plain", ContentEncoding |-> "", Body |-> "B1"],
     [ContentType |-> "text/plain", ContentEncoding |-> "gzip", Body |-> "B22"]}

\* The outcomes of http.Get and io.ReadAll: a transport error, a status
\* other than 200 with the upstream's error page, a failed body read, or a
\* 200 with its headers and body.
Upstream ==
    {[err |-> TRUE, status |-> 0, readErr |-> FALSE, item |-> NoItem],
     [err |-> FALSE, status |-> 503, readErr |-> FALSE,
      item |-> cacheItem("", "text/html", "", "unavailable")],
     [err |-> FALSE, status |-> 200, readErr |-> TRUE, item |-> NoItem]}
    \cup {[err |-> FALSE, status |-> 200, readErr |-> FALSE,
           item |-> cacheItem("", i.ContentType, i.ContentEncoding, i.Body)]
          : i \in UpstreamItems}

UpstreamKind(o) ==
    IF o.err THEN "transport"
    ELSE IF o.status # 200 THEN "status"
    ELSE IF o.readErr THEN "read"
    ELSE "ok"

----------------------------------------------------------------------------
(* The state machine.                                                      *)

Init ==
    /\ h \in Handlers
    /\ once = [done |-> FALSE, locked |-> FALSE]
    /\ req = EmptyBag
    /\ osEnv = EmptyMap
    /\ nInit = 0
    /\ nSetenv = 0
    /\ first = [x \in {} |-> NoItem]
    /\ settled = [x \in {} |-> NoItem]
    /\ halted = FALSE

\* The calls in flight.
InFlight == BagToSet(req)

\* The calls in flight besides the call rq.
Others(rq) == req (-) SetToBag({rq})

\* A done flag tested without holding the mutex of the Once.
onceEntersUnlocked(o) == ~o.done

\* sync.Once.Do: whether this caller is the one that runs f (done is unset
\* and the mutex is free).
onceEnters(o) == ~o.done /\ ~o.locked

\* The calls become rest and the call nr. Returns are taken one at a time: a
\* returned call stays on record until the server has sent its response
\* (Close), and the next call returns after that. Close changes nothing
\* else, so every interleaving of the handler's own steps is still there.
Goes(rest, nr) ==
    /\ nr.pc = "done" => \A q \in BagToSet(rest) : q.pc # "done"
    /\ req' = rest (+) SetToBag({nr})

\* What had been answered for the path when a request for it arrives.
Seen(path) ==
    LET p == alias(trimVersion(h, path)) IN
    [first   |-> At(first, p, NoItem),
     settled |-> At(settled, p, NoItem),
     failed  |-> {q.up : q \in {x \in InFlight :
                    x.pc = "done" /\ x.res = p /\ x.up \in {"transport", "status", "read"}}}]

\* Lines 471-526 for the request rq of a call, the other calls being rest.
Serve(rest, rq) ==
    /\ \E nr \in ServeHTTP(h, rq) : Goes(rest, nr)
    /\ UNCHANGED <<h, once, osEnv, nInit, nSetenv, first, settled, halted>>

\* A call becomes the one that runs h.init inside once.Do.
EnterInit(rest) ==
    /\ once' = [once EXCEPT !.locked = TRUE]
    /\ nInit' = nInit + 1
    /\ req' = rest (+) SetToBag({[IdleReq EXCEPT !.pc = "init", !.step = 1]})
    /\ UNCHANGED <<h, osEnv, nSetenv, first, settled, halted>>

\* A request arrives: the server calls ServeHTTP on a new goroutine, which
\* calls h.once.Do(h.init) (line 469). With init done the call goes on into
\* lines 471-526; otherwise it runs init or waits for the call running it.
\* ServeHTTP reads the URL and the headers of the request at line 474 at the
\* earliest, so they are drawn when once.Do has returned.
Arrive ==
    /\ ~halted
    /\ BagCardinality(req) < MaxInFlight
    /\ IF once.done
       THEN \E path \in RequestPaths, inm \in Conditionals :
                Serve(req, [NewRequest(path, inm) EXCEPT !.seen = Seen(path)])
       ELSE IF onceEnters(once)
       THEN EnterInit(req)
       ELSE /\ req' = req (+) SetToBag({IdleReq})
            /\ UNCHANGED <<h, once, osEnv, nInit, nSetenv, first, settled, halted>>

\* once.Do returns to a call: to the one that ran init, or to one that waited
\* for the mutex of the Once and finds done set. Such a call arrived before
\* any response was produced.
OnceReturn(rq) ==
    /\ ~halted
    /\ rq.pc = "once"
    /\ ~once.locked
    /\ IF once.done
       THEN \E path \in RequestPaths, inm \in Conditionals :
                Serve(Others(rq), NewRequest(path, inm))
       ELSE EnterInit(Others(rq))

\* One step of Handler.init, run by the call that entered once.Do first.
InitStep(rq) ==
    /\ ~halted
    /\ rq.pc = "init"
    /\ LET step    == rq.step
           goes(n) == Others(rq) (+) SetToBag({n})
           next    == goes([rq EXCEPT !.step = step + 1])
       IN
       \/ /\ step = 1
          /\ \E hash \in TimeHashes : h' = initVersion(h, hash)
          /\ req' = next
          /\ UNCHANGED <<once, osEnv, nSetenv>>
       \/ /\ step \in {2, 3, 5, 6, 7, 8}
          /\ h' = CASE step = 2 -> initStaticResources(h)
                    [] step = 3 -> initLibraries(h)
                    [] step = 5 -> initServiceWorker(h)
                    [] step = 6 -> initIcon(h)
                    [] step = 7 -> initPWA(h)
                    [] step = 8 -> initPageContent(h)
          /\ req' = next
          /\ UNCHANGED <<once, osEnv, nSetenv>>
       \/ /\ step = 4
          /\ \E order \in Orders(DOMAIN h.libraries) : h' = initLinks(h, order)
          /\ req' = next
          /\ UNCHANGED <<once, osEnv, nSetenv>>
       \/ /\ step = 9
          /\ osEnv' = setenvAll(osEnv, makeAppJSEnv(h))
          /\ nSetenv' = nSetenv + 1
          /\ IF TemplateParses(h.ServiceWorkerTemplate)
             THEN /\ \E order \in KeyOrders(workerResources(h)) :
                        h' = initPWAResources(h, order)
                  /\ req' = next
                  /\ UNCHANGED once
             ELSE \* template.Must panics in makeAppWorkerJS; the deferred
                  \* calls of once.Do set done and release the mutex.
                  /\ h' = initPWAResourcesHead(h)
                  /\ req' = goes([rq EXCEPT !.pc = "panicked"])
                  /\ once' = [done |-> TRUE, locked |-> FALSE]
       \/ /\ step = 10
          /\ h' = initProxyResources(h)
          /\ once' = [done |-> TRUE, locked |-> FALSE]
          /\ req' = goes(IdleReq)
          /\ UNCHANGED <<osEnv, nSetenv>>
    /\ UNCHANGED <<nInit, first, settled, halted>>

\* Whether another call has missed the proxy cache for the path and has not
\* returned yet.
FetchPending(rq, path) ==
    \E q \in BagToSet(Others(rq)) : q.pc \in {"fetch", "store"} /\ q.res = path

\* Lines 560-569: http.Get failed.
getFailed(rq) ==
    Returned(rq, WriteHeader(rq.w, StatusInternalServerError), "proxy", {})

\* The status check that lets every status from 200 on through.
statusAcceptedFrom200(code) == code >= StatusOK

\* Line 572: the upstream status that is served.
statusAccepted(code) == code = StatusOK

\* Lines 572-575: the upstream answered another status.
statusRefused(rq) ==
    Returned(rq, WriteHeader(rq.w, StatusNotFound), "proxy", {})

\* The cache item filed under the path of the request.
fetchedUnderRequestPath(rq, o) ==
    [rq EXCEPT !.pc = "store", !.item = [o.item EXCEPT !.Path = rq.path]]

\* Lines 589-594: the cache item built from the upstream response.
fetched(rq, o) ==
    [rq EXCEPT !.pc = "store", !.item = [o.item EXCEPT !.Path = rq.res]]

\* The read error ignored: what was read is cached and served.
readFailedIgnored(rq, o) == fetched(rq, o)

\* Lines 578-587: io.ReadAll failed.
readFailed(rq, o) ==
    Returned(rq, WriteHeader(rq.w, StatusInternalServerError), "proxy", {})

\* Lines 559-594 once http.Get and io.ReadAll have returned outcome o.
upstreamResult(rq, o) ==
    IF o.err THEN getFailed(rq)
    ELSE IF ~statusAccepted(o.status) THEN statusRefused(rq)
    ELSE IF o.readErr THEN readFailed(rq, o)
    ELSE fetched(rq, o)

\* Lines 559-594: http.Get returns, the status is checked and the body read.
Fetch(rq) ==
    /\ ~halted
    /\ rq.pc = "fetch"
    /\ \E o \in Upstream :
        Goes(Others(rq), upstreamResult(
                [rq EXCEPT !.did = @ \cup {"fetch"}, !.up = UpstreamKind(o)], o))
    /\ UNCHANGED <<h, once, osEnv, nInit, nSetenv, first, settled, halted>>

\* The store that keeps the item the cache already holds for the path.
StoreKeepsFirst(rq) ==
    /\ ~halted
    /\ rq.pc = "store"
    /\ h' = IF CacheHas(h.cachedProxyResources, rq.res) THEN h
            ELSE [h EXCEPT !.cachedProxyResources = CacheSet(@, rq.item)]
    /\ Goes(Others(rq), Returned(rq, serveCachedItem(rq.w, rq.item), "proxy", {"set"}))
    /\ first' = IF rq.res \in DOMAIN first THEN first ELSE MapSet(first, rq.res, rq.item)
    /\ settled' = IF FetchPending(rq, rq.res) THEN settled
                  ELSE MapSet(settled, rq.res, rq.item)
    /\ UNCHANGED <<once, osEnv, nInit, nSetenv, halted>>

\* The store that drops the item the cache holds for the path instead of
\* replacing it.
StoreEvictsHeld(rq) ==
    /\ ~halted
    /\ rq.pc = "store"
    /\ h' = IF CacheHas(h.cachedProxyResources, rq.res)
            THEN [h EXCEPT !.cachedProxyResources =
                    [p \in DOMAIN @ \ {rq.res} |-> @[p]]]
            ELSE [h EXCEPT !.cachedProxyResources = CacheSet(@, rq.item)]
    /\ Goes(Others(rq), Returned(rq, serveCachedItem(rq.w, rq.item), "proxy", {"set"}))
    /\ first' = IF rq.res \in DOMAIN first THEN first ELSE MapSet(first, rq.res, rq.item)
    /\ settled' = IF FetchPending(rq, rq.res) THEN settled
                  ELSE MapSet(settled, rq.res, rq.item)
    /\ UNCHANGED <<once, osEnv, nInit, nSetenv, halted>>

\* Lines 595-596: the item is stored in the proxy cache and served.
Store(rq) ==
    /\ ~halted
    /\ rq.pc = "store"
    /\ h' = [h EXCEPT !.cachedProxyResources = CacheSet(@, rq.item)]
    /\ Goes(Others(rq), Returned(rq, serveCachedItem(rq.w, rq.item), "proxy", {"set"}))
    /\ first' = IF rq.res \in DOMAIN first THEN first ELSE MapSet(first, rq.res, rq.item)
    /\ settled' = IF FetchPending(rq, rq.res) THEN settled
                  ELSE MapSet(settled, rq.res, rq.item)
    /\ UNCHANGED <<once, osEnv, nInit, nSetenv, halted>>

\* The server has sent the response of a returned call.
Close(rq) ==
    /\ ~halted
    /\ rq.pc = "done"
    /\ req' = Others(rq)
    /\ UNCHANGED <<h, once, osEnv, nInit, nSetenv, first, settled, halted>>

\* net/http recovers the panic of a handler, logs it and drops the
\* connection: the process goes on serving.
Recover(rq) ==
    /\ ~halted
    /\ rq.pc = "panicked"
    /\ req' = Others(rq)
    /\ UNCHANGED <<h, once, osEnv, nInit, nSetenv, first, settled, halted>>

\* A caller of ServeHTTP that does not recover: the panic ends the process.
Crash(rq) ==
    /\ ~halted
    /\ rq.pc = "panicked"
    /\ halted' = TRUE
    /\ UNCHANGED <<h, once, req, osEnv, nInit, nSetenv, first, settled>>

Next ==
    \/ Arrive
    \/ \E rq \in InFlight : OnceReturn(rq)
    \/ \E rq \in InFlight : InitStep(rq)
    \/ \E rq \in InFlight : Fetch(rq)
    \/ \E rq \in InFlight : Store(rq)
    \/ \E rq \in InFlight : Close(rq)
    \/ \E rq \in InFlight : Recover(rq)
    \/ \E rq \in InFlight : Crash(rq)

Spec == Init /\ [][Next]_vars

\* A single client: it sends a request when the call before has returned
\* and its response is sent. The first call runs init.
SerialArrive ==
    /\ ~halted
    /\ req = EmptyBag
    /\ IF once.done
       THEN \E path \in SerialPaths, inm \in Conditionals :
                Serve(req, [NewRequest(path, inm) EXCEPT !.seen = Seen(path)])
       ELSE EnterInit(req)

\* once.Do returns to the call that ran init.
SerialReturn(rq) ==
    /\ ~halted
    /\ rq.pc = "once"
    /\ once.done
    /\ \E path \in SerialPaths, inm \in Conditionals :
          Serve(Others(rq), NewRequest(path, inm))

SerialInit ==
    /\ h \in SerialHandlers
    /\ once = [done |-> FALSE, locked |-> FALSE]
    /\ req = EmptyBag
    /\ osEnv = EmptyMap
    /\ nInit = 0
    /\ nSetenv = 0
    /\ first = [x \in {} |-> NoItem]
    /\ settled = [x \in {} |-> NoItem]
    /\ halted = FALSE

SerialNext ==
    \/ SerialArrive
    \/ \E rq \in InFlight : SerialReturn(rq)
    \/ \E rq \in InFlight : InitStep(rq)
    \/ \E rq \in InFlight : Fetch(rq)
    \/ \E rq \in InFlight : Store(rq)
    \/ \E rq \in InFlight : Close(rq)
    \/ \E rq \in InFlight : Recover(rq)
    \/ \E rq \in InFlight : Crash(rq)

\* Every configuration above, served one request at a time.
SerialSpec == SerialInit /\ [][SerialNext]_vars

\* The most fields a resource declaration of the configurations below has.
MaxFields == 2

\* The fields a resource declaration is made of: an empty one (two spaces
\* in a row), two URLs, and the modifiers in lower and mixed case.
Fields ==
    {"", "https://x.test/a.js", "/web/B.js", "crossorigin",
     "crossorigin=Anonymous", "Defer", "async"}

\* The fields joined by single spaces.
RECURSIVE JoinFields(_)
JoinFields(fields) ==
    IF fields = <<>> THEN ""
    ELSE IF Len(fields) = 1 THEN fields[1]
    ELSE fields[1] \o " " \o JoinFields(Tail(fields))

\* The resource declarations: every sequence of up to MaxFields fields.
Declarations ==
    {JoinFields(f) : f \in UNION {[1..n -> Fields] : n \in 0..MaxFields}}

\* Handlers that differ in the one script they declare; the icons are set.
ParseHandlers ==
    {[NewHandler("nil", "v1", "", <<>>, Nil) EXCEPT
         !.Scripts = <<v>>,
         !.Icon = [Default |-> "/web/icon.png", Large |-> "/web/large.png",
                   SVG |-> "/web/icon.svg", Maskable |-> "/web/mask.png"]] :
        v \in Declarations}

\* The configurations init alone is run on.
InitHandlers == IconHandlers \cup WorkerHandlers \cup LibraryHandlers

\* The first request arrives: its call enters once.Do and runs init.
FirstArrive ==
    /\ ~halted
    /\ req = EmptyBag
    /\ onceEnters(once)
    /\ EnterInit(req)

InitOnlyInit ==
    /\ h \in InitHandlers
    /\ once = [done |-> FALSE, locked |-> FALSE]
    /\ req = EmptyBag
    /\ osEnv = EmptyMap
    /\ nInit = 0
    /\ nSetenv = 0
    /\ first = [x \in {} |-> NoItem]
    /\ settled = [x \in {} |-> NoItem]
    /\ halted = FALSE

InitOnlyNext ==
    \/ FirstArrive
    \/ \E rq \in InFlight : InitStep(rq)

\* Handler.init run by the first call, on every configuration above.
InitSpec == InitOnlyInit /\ [][InitOnlyNext]_vars

ParseInit ==
    /\ h \in ParseHandlers
    /\ once = [done |-> FALSE, locked |-> FALSE]
    /\ req = EmptyBag
    /\ osEnv = EmptyMap
    /\ nInit = 0
    /\ nSetenv = 0
    /\ first = [x \in {} |-> NoItem]
    /\ settled = [x \in {} |-> NoItem]
    /\ halted = FALSE

\* Handler.init, which parses every resource declaration, run on every
\* declaration above.
ParseSpec == ParseInit /\ [][InitOnlyNext]_vars

----------------------------------------------------------------------------
(* Properties.                                                             *)

\* The call has passed once.Do and read its request.
Past(rq) == rq.pc \in {"fetch", "store", "done"}

\* The keys of a map of the handler, none while it is nil.
Keys(m) == IF m = Nil THEN {} ELSE DOMAIN m

Header(rq, k) == At(rq.w.header, k, "")

\* The path ServeHTTP dispatches for the request.
Normalised(rq) == alias(trimVersion(h, rq.path))

\* init was aborted by the panic of the service-worker template.
InitAborted == once.done /\ ~TemplateParses(h.ServiceWorkerTemplate)

\* Every field init derives is set, the PWA cache with its five entries.
FullyInitialized ==
    /\ h.etag # ""
    /\ h.libraries # Nil
    /\ Keys(h.cachedPWAResources) =
         {"/wasm_exec.js", "/app.js", "/app-worker.js", "/manifest.webmanifest", "/app.css"}
    /\ h.proxyResources # Nil
    /\ h.cachedProxyResources # Nil

\* Styles is "/app.css", the library paths in some order, the declared styles.
StylesPrependedOnce ==
    \E order \in Orders(Keys(h.libraries)) :
        h.Styles = <<"/app.css">> \o order \o ConfiguredStyles

C2_PastBarrierFullyInitialized ==
    \A rq \in InFlight : Past(rq) =>
        /\ FullyInitialized
        /\ \A q \in InFlight : q.pc # "init"

\* C3: after the service-worker template failed in init, no call is
\* dispatched: none reads its request and none is answered.
C3_NoDispatchAfterInitFault ==
    InitAborted => \A rq \in InFlight : ~Past(rq)

\* C4: a request whose If-None-Match equals the ETag, the quoted version, is
\* answered 304 with an empty body and nothing else happens for it: no
\* delegation, no lookup, no fetch, no cache write, no render.
C4_MatchingETagStops ==
    \A rq \in InFlight : (Past(rq) /\ rq.inm = "\"" \o h.Version \o "\"") =>
        /\ rq.pc = "done"
        /\ rq.w.status = StatusNotModified
        /\ rq.w.body = ""
        /\ rq.branches = {"notmodified"}
        /\ rq.did = {}
        /\ rq.to = ""

\* C4 witness: a request for a proxy path with the ETag was answered 304.
C4_Witness ==
    \E rq \in InFlight :
        /\ rq.pc = "done"
        /\ rq.inm = h.etag
        /\ rq.path \in Keys(h.proxyResources)
        /\ rq.w.status = StatusNotModified

BranchStatuses(rq) ==
    IF rq.branches = {"static"} THEN {StatusOK, StatusNotFound}
    ELSE IF rq.branches = {"wasm"}
         THEN IF IsFileServer(h.Resources) THEN {StatusOK, StatusNotFound}
              ELSE {StatusNotFound}
    ELSE IF rq.branches = {"proxy"}
         THEN IF rq.up = "status" THEN {StatusNotFound}
              ELSE IF rq.up \in {"transport", "read"} THEN {StatusInternalServerError}
              ELSE {StatusOK}
    ELSE IF rq.branches = {"page"}
         THEN IF routed(rq.path) THEN {StatusOK, StatusInternalServerError}
              ELSE {StatusNotFound}
    ELSE IF rq.branches \in {{"pwa"}, {"library"}} THEN {StatusOK}
    ELSE {}

C6_HeadersOnEveryResponse ==
    \A rq \in InFlight : Past(rq) =>
        /\ Header(rq, "Cache-Control") = "no-cache"
        /\ Header(rq, "ETag") = "\"" \o h.Version \o "\""

\* C6 witness: the 500 of a failed upstream fetch carries both headers.
C6_Witness ==
    \E rq \in InFlight :
        /\ rq.pc = "done"
        /\ rq.branches = {"proxy"}
        /\ rq.w.status = StatusInternalServerError
        /\ Header(rq, "Cache-Control") = "no-cache"
        /\ Header(rq, "ETag") = h.etag

\* The first of PWA cache, proxy table, library map that holds the path.
FirstHolder(path) ==
    IF path \in Keys(h.cachedPWAResources) THEN "pwa"
    ELSE IF path \in Keys(h.proxyResources) THEN "proxy"
    ELSE IF path \in Keys(h.libraries) THEN "library"
    ELSE "page"

\* C7: a request that is neither answered 304 nor delegated to the file
\* server is answered by the first of PWA cache, proxy table, library map
\* and page rendering that holds its normalised path, and by that one only;
\* a PWA item and a library are served with their own bytes.
C7_DispatchPrecedence ==
    \A rq \in InFlight : Past(rq) =>
        /\ Cardinality(rq.branches) = 1
        /\ rq.branches \subseteq {"pwa", "proxy", "library", "page"} =>
              /\ rq.branches = {FirstHolder(Normalised(rq))}
              /\ rq.branches = {"pwa"} =>
                    rq.w.body = h.cachedPWAResources[Normalised(rq)].Body
              /\ rq.branches = {"library"} => rq.w.body = h.libraries[Normalised(rq)]

\* C7 witness: a path held by the proxy table and the library map was
\* answered by the proxy branch, and one held by the PWA cache and the
\* library map by the PWA cache.
C7_Witness ==
    \E rq \in InFlight :
        /\ rq.pc = "done"
        /\ Normalised(rq) \in Keys(h.libraries)
        /\ \/ Normalised(rq) \in Keys(h.proxyResources) /\ rq.branches = {"proxy"}
           \/ Normalised(rq) \in Keys(h.cachedPWAResources) /\ rq.branches = {"pwa"}

\* The call was answered 200 with the item, without a fetch.
ServedFromCache(rq, i) ==
    /\ rq.pc = "done"
    /\ rq.w.status = StatusOK
    /\ rq.w.body = i.Body
    /\ Header(rq, "Content-Type") = i.ContentType
    /\ Header(rq, "Content-Encoding") = i.ContentEncoding
    /\ "fetch" \notin rq.did

\* C8 as stated: a request for a proxy path that arrives after a request for
\* it was answered from an upstream 200 is answered 200 with that same item
\* and without a fetch.
C8_LaterRequestsGetFirstAnswer ==
    \A rq \in InFlight : (Past(rq) /\ rq.seen.first # NoItem) =>
        ServedFromCache(rq, rq.seen.first)

\* C8, amended: a request for a proxy path whose If-None-Match does not match
\* and that arrives after the path was answered from an upstream 200 while no
\* other call was fetching it, is answered 200 with that same item and
\* without a fetch; the cache keeps that item.
C8_LaterRequestsGetSettledAnswer ==
    /\ \A rq \in InFlight : (Past(rq) /\ rq.seen.settled # NoItem /\ rq.inm # h.etag) =>
          ServedFromCache(rq, rq.seen.settled) /\ "set" \notin rq.did
    /\ \A p \in DOMAIN settled : proxyCacheGet(h, p) = settled[p]

\* C8 witness: a later request was answered with the compressed item the
\* upstream had answered before.
C8_Witness ==
    \E rq \in InFlight :
        /\ rq.seen.settled # NoItem
        /\ rq.seen.settled.ContentEncoding = "gzip"
        /\ rq.inm # h.etag
        /\ ServedFromCache(rq, rq.seen.settled)

\* A call returns in this step with an upstream outcome of the kinds.
ReturnsWith(kinds) ==
    \E nr \in BagToSet(req') :
        /\ nr.pc = "done"
        /\ nr.up \in kinds
        /\ CopiesIn(nr, req') > CopiesIn(nr, req)

\* The proxy cache holds only items built from a complete upstream 200.
OnlyAcceptedItemsCached ==
    \A p \in Keys(h.cachedProxyResources) :
        \E i \in UpstreamItems :
            h.cachedProxyResources[p] =
                cacheItem(p, i.ContentType, i.ContentEncoding, i.Body)

\* A call whose upstream answered another status than 200 has returned 404
\* without a body and without a cache write.
C9_Refused ==
    /\ \A rq \in InFlight : rq.up = "status" =>
          /\ rq.pc = "done"
          /\ rq.w.status = StatusNotFound
          /\ rq.w.body = ""
          /\ "set" \notin rq.did
    /\ OnlyAcceptedItemsCached

\* A call that is dispatched to the proxy branch in this step and finds no
\* item for its path goes on to fetch it.
MissFetches ==
    \A nr \in BagToSet(req') :
        (/\ CopiesIn(nr, req') > CopiesIn(nr, req)
         /\ nr.branches = {"proxy"}
         /\ nr.did = {"lookup"}
         /\ proxyCacheGet(h, nr.res) = NoItem) => nr.pc = "fetch"

\* C9: a proxy request whose upstream answers another status than 200 is
\* answered 404 with nothing stored: the step leaves the proxy cache as it
\* was, and a request that finds no item for its path fetches upstream.
C9_UpstreamStatusIs404 ==
    /\ [] C9_Refused
    /\ [][/\ ReturnsWith({"status"}) =>
                h'.cachedProxyResources = h.cachedProxyResources
           /\ MissFetches]_vars

\* C9 witness: a call was answered 404 for an upstream 503, the cache has no
\* item for the path, and a request that arrived after it is fetching.
C9_Witness ==
    \E a, b \in InFlight :
        /\ a.pc = "done" /\ a.up = "status" /\ a.w.status = StatusNotFound
        /\ a.res \notin Keys(h.cachedProxyResources)
        /\ b.pc = "fetch" /\ b.res = a.res /\ "status" \in b.seen.failed

\* A call whose upstream fetch failed has returned 500 without a body and
\* without a cache write; one whose upstream answered 200 was served the
\* item and has cached it; no such call stops the process.
C10_Failed ==
    /\ \A rq \in InFlight : rq.up \in {"transport", "read"} =>
          /\ rq.pc = "done"
          /\ rq.w.status = StatusInternalServerError
          /\ rq.w.body = ""
          /\ "set" \notin rq.did
    /\ \A rq \in InFlight : (rq.pc = "done" /\ rq.up = "ok") =>
          /\ rq.w.status = StatusOK
          /\ rq.w.body = rq.item.Body
          /\ "set" \in rq.did
          /\ proxyCacheGet(h, rq.res) # NoItem
    /\ halted => InitAborted

\* C10: a proxy request whose upstream GET or body read fails is answered
\* 500; the step changes no field of the handler and does not stop the
\* process; a request whose upstream answers 200 is served and cached.
C10_UpstreamFailureIs500 ==
    /\ [] C10_Failed
    /\ [][ReturnsWith({"transport", "read"}) =>
            h' = h /\ once' = once /\ osEnv' = osEnv /\ halted' = halted]_vars

\* C10 witness: a request that arrived after the 500 of a failed fetch for
\* its path fetched again, got an upstream 200, was served and cached.
C10_Witness ==
    \E rq \in InFlight :
        /\ rq.pc = "done"
        /\ rq.seen.failed \cap {"transport", "read"} # {}
        /\ rq.up = "ok"
        /\ rq.w.status = StatusOK
        /\ proxyCacheGet(h, rq.res) = rq.item

\* A call has missed the proxy cache for the path and has not returned yet.
Pending(p) == \E q \in InFlight : q.pc \in {"fetch", "store"} /\ q.res = p

\* The call was answered 200 with the item.
AnsweredWith(rq, i) ==
    /\ rq.w.status = StatusOK
    /\ rq.w.body = i.Body
    /\ Header(rq, "Content-Type") = i.ContentType
    /\ Header(rq, "Content-Encoding") = i.ContentEncoding

\* C11 as stated: once no call is fetching a path any more, the cache holds
\* one item for it and every call that went to the upstream for the path,
\* the first one answered from it included, was answered with that item.
C11_AllAnsweredWithCachedItem ==
    \A p \in Keys(h.cachedProxyResources) : ~Pending(p) =>
        /\ h.cachedProxyResources[p].Path = p
        /\ At(first, p, NoItem) = h.cachedProxyResources[p]
        /\ \A rq \in InFlight : (rq.pc = "done" /\ rq.res = p) =>
              AnsweredWith(rq, h.cachedProxyResources[p])

\* Calls that miss the cache for the same path fetch each for itself; each
\* one the upstream answers 200 is answered with the item it fetched.
C11_EachServedItsOwn ==
    /\ \A p \in Keys(h.cachedProxyResources) : h.cachedProxyResources[p].Path = p
    /\ \A rq \in InFlight : (rq.pc = "done" /\ rq.up = "ok") =>
          "fetch" \in rq.did /\ AnsweredWith(rq, rq.item)

\* The call that stores in this step leaves its own item in the cache.
LastWriterWins ==
    \A nr \in BagToSet(req') :
        (nr.pc = "done" /\ nr.up = "ok" /\ CopiesIn(nr, req') > CopiesIn(nr, req)) =>
            proxyCacheGet(h', nr.res) = nr.item

\* Once no call is fetching a path that has an item, none will and the item
\* stays.
Converged ==
    \A p \in Keys(h.cachedProxyResources) : ~Pending(p) =>
        /\ proxyCacheGet(h', p) = proxyCacheGet(h, p)
        /\ \A q \in BagToSet(req') : ~(q.pc \in {"fetch", "store"} /\ q.res = p)

\* A call dispatched to the proxy branch in this step that finds an item is
\* answered with it, without a fetch.
HitServed ==
    \A nr \in BagToSet(req') :
        (/\ CopiesIn(nr, req') > CopiesIn(nr, req)
         /\ nr.branches = {"proxy"}
         /\ nr.did = {"lookup"}
         /\ proxyCacheGet(h, nr.res) # NoItem) =>
            ServedFromCache(nr, proxyCacheGet(h, nr.res))

\* C11, amended: concurrent requests for an uncached proxy path fetch each
\* for itself and each is answered with what it fetched; the cache holds one
\* item for the path, the last writer's; once all have completed it no
\* longer changes and every later request is answered with it.
C11_LastWriterWins ==
    /\ [] C11_EachServedItsOwn
    /\ [][LastWriterWins /\ Converged /\ HitServed]_vars

\* C11 witness: two calls fetched the path together and got different items;
\* both have completed, the cache holds the second one's item and a later
\* request was answered with it.
C11_Witness ==
    \E rq \in InFlight :
        /\ rq.seen.first # NoItem
        /\ ~Pending(rq.res)
        /\ proxyCacheGet(h, rq.res) # rq.seen.first
        /\ ServedFromCache(rq, proxyCacheGet(h, rq.res))

----------------------------------------------------------------------------
(* The proxy table built by init.                                          *)

\* The declarations of the configured ProxyResources list.
Configured == Range(h.ProxyResources)

\* init has built the proxy table.
TableBuilt == h.proxyResources # Nil

\* C12: whatever ProxyResources list is configured, the proxy table built by
\* init has no entry on a reserved PWA path, every entry has a public path
\* that starts with "/" and an internal path that starts with "/web/", and
\* this stays so in every state after init, requests served included.
C12_ProxyTableWellFormed ==
    TableBuilt =>
        \A p \in DOMAIN h.proxyResources :
            /\ p \notin {"/wasm_exec.js", "/goapp.js", "/app.js", "/app-worker.js",
                          "/manifest.json", "/manifest.webmanifest", "/app.css",
                          "/app.wasm", "/goapp.wasm", "/"}
            /\ h.proxyResources[p].Path = p
            /\ HasPrefix(p, "/")
            /\ HasPrefix(h.proxyResources[p].ResourcePath, "/web/")

\* A list with a declaration on a reserved path and a valid one, the table
\* built from it, and a proxy resource fetched and stored since.
C12_Witness ==
    /\ TableBuilt
    /\ \E e \in Configured : e.Path = "/app.js"
    /\ "/p.txt" \in DOMAIN h.proxyResources
    /\ CacheHas(h.cachedProxyResources, "/robots.txt")
    /\ \E rq \in InFlight : rq.pc = "done" /\ "proxy" \in rq.branches

\* The paths init gives a default for, with the default of each.
DefaultResource ==
    [p \in {"/robots.txt", "/sitemap.xml", "/ads.txt"} |->
        CASE p = "/robots.txt"  -> "/web/robots.txt"
          [] p = "/sitemap.xml" -> "/web/sitemap.xml"
          [] p = "/ads.txt"     -> "/web/ads.txt"]

\* A declaration init accepts.
ValidDeclaration(e) ==
    /\ e.Path \notin {"/wasm_exec.js", "/goapp.js", "/app.js", "/app-worker.js",
                       "/manifest.json", "/manifest.webmanifest", "/app.css",
                       "/app.wasm", "/goapp.wasm", "/"}
    /\ HasPrefix(e.Path, "/")
    /\ HasPrefix(e.ResourcePath, "/web/")

\* C13: a table built from a configuration that declares none of
\* /robots.txt, /sitemap.xml and /ads.txt maps the three to /web/robots.txt,
\* /web/sitemap.xml and /web/ads.txt, and holds nothing else when no other
\* valid declaration is configured.
C13_DefaultsInjected ==
    (TableBuilt /\ \A e \in Configured : e.Path \notin DOMAIN DefaultResource) =>
        /\ \A p \in DOMAIN DefaultResource :
              /\ p \in DOMAIN h.proxyResources
              /\ h.proxyResources[p] = ProxyResource(p, DefaultResource[p])
        /\ (\A e \in Configured : ~ValidDeclaration(e)) =>
              DOMAIN h.proxyResources = DOMAIN DefaultResource

\* A table built from declarations that are all refused: the defaults are
\* there and are all there is.
C13_Witness ==
    /\ TableBuilt
    /\ Configured # {}
    /\ \A e \in Configured : e.Path \notin DOMAIN DefaultResource /\ ~ValidDeclaration(e)
    /\ DOMAIN h.proxyResources = DOMAIN DefaultResource

\* C14 as stated: every declaration for /robots.txt, /sitemap.xml or /ads.txt
\* is what the table maps the path to, and the default is not.
C14_EveryDeclarationWins ==
    TableBuilt =>
        \A e \in Configured :
            e.Path \in DOMAIN DefaultResource =>
                /\ h.proxyResources[e.Path].ResourcePath = e.ResourcePath
                /\ h.proxyResources[e.Path].ResourcePath # DefaultResource[e.Path]

\* The positions of the valid declarations for the path p.
ValidFor(p) ==
    {i \in DOMAIN h.ProxyResources :
        h.ProxyResources[i].Path = p /\ ValidDeclaration(h.ProxyResources[i])}

\* C14: for each of /robots.txt, /sitemap.xml and /ads.txt that has a valid
\* declaration (its internal path starts with "/web/"), the table maps the
\* path to the internal path of the last such declaration; with no valid
\* declaration for it the table maps it to the default.
C14_LastValidDeclarationWins ==
    TableBuilt =>
        \A p \in DOMAIN DefaultResource :
            IF ValidFor(p) = {}
            THEN h.proxyResources[p] = ProxyResource(p, DefaultResource[p])
            ELSE h.proxyResources[p] =
                    h.ProxyResources[CHOOSE i \in ValidFor(p) : \A j \in ValidFor(p) : j <= i]

\* /robots.txt declared twice with two internal paths: the table has the
\* second one.
C14_Witness ==
    /\ TableBuilt
    /\ Cardinality(ValidFor("/robots.txt")) = 2
    /\ h.proxyResources["/robots.txt"].ResourcePath # "/web/robots.txt"
    /\ h.proxyResources["/robots.txt"] = h.ProxyResources[2]
    /\ h.ProxyResources[1] # h.ProxyResources[2]

----------------------------------------------------------------------------
(* The generated service worker.                                           *)

\* init has generated app-worker.js.
WorkerBuilt == CacheHas(h.cachedPWAResources, "/app-worker.js")

\* The list has its elements in ascending byte-wise order.
IsAscending(list) ==
    \A i \in 1..(Len(list) - 1) : ~StrLess(list[i + 1], list[i])

\* C15: the generated app-worker.js is a function of the configuration: it
\* is, byte for byte, what makeAppWorkerJS yields for every order in which
\* the range over the intermediate set may run, so two handlers with the
\* same configuration generate the same bytes; and the resource list in it
\* is in ascending byte-wise lexicographic order for every such order.
C15_WorkerDeterministic ==
    WorkerBuilt =>
        \A order \in KeyOrders(workerResources(h)) :
            /\ h.cachedPWAResources["/app-worker.js"].Body = makeAppWorkerJS(h, order)
            /\ IsAscending(resourcesToCache(h, order))

\* A generated worker whose resources the range could visit in several
\* orders, none of the unsorted lists being the sorted one for some order.
C15_Witness ==
    /\ WorkerBuilt
    /\ h.Resources = "RemoteBucket"
    /\ Cardinality({resolveAll(h, order) : order \in KeyOrders(workerResources(h))}) > 2
    /\ \E order \in KeyOrders(workerResources(h)) :
          ~IsAscending(resolveAll(h, order))

\* No element occurs twice in the list.
NoDuplicate(list) ==
    \A i, j \in DOMAIN list : i # j => list[i] # list[j]

\* C16: whatever the configuration and the resource resolver, no URL occurs
\* more than once in the resolved, sorted resource list of the generated
\* app-worker.js.
C16_NoDuplicateURL ==
    WorkerBuilt =>
        \A order \in KeyOrders(workerResources(h)) :
            NoDuplicate(resourcesToCache(h, order))

\* The URL components of the entries of a list, the entries without a URL
\* left out.
URLs(list) == {parseHTTPResource(e).URL : e \in Range(list)} \ {""}

\* What the service worker is to cache, before resolution: the fixed core
\* assets, the four icons, and the URLs of Fonts, Scripts, Styles and
\* CacheableResources.
OfflineURLs ==
    {"/wasm_exec.js", "/app.js", "/manifest.webmanifest", "/app.css", "/", "/web/app.wasm"}
        \cup URLs(<<h.Icon.Default, h.Icon.Large, h.Icon.SVG, h.Icon.Maskable>>)
        \cup URLs(h.Fonts) \cup URLs(h.Scripts) \cup URLs(h.Styles)
        \cup URLs(h.CacheableResources)

\* C17: the URLs in the generated app-worker.js are the resolved forms of the
\* fixed core assets, of the default, large, SVG and maskable icons and of
\* the URLs of Fonts, Scripts, Styles and CacheableResources, and no other.
C17_CachesExactlyTheDeclared ==
    WorkerBuilt =>
        \A order \in KeyOrders(workerResources(h)) :
            Range(resourcesToCache(h, order)) =
                {Resolve(h.Resources, u) : u \in OfflineURLs}

----------------------------------------------------------------------------
(* Libraries.                                                              *)

\* The configured libraries init accepts.
ValidLibraries ==
    {l \in Range(h.Libraries) : HasPrefix(l.path, "/") /\ l.styles # ""}

ValidLibraryPaths == {l.path : l \in ValidLibraries}

\* The library styles are at the head of the list, behind /app.css.
LibraryStylesLead ==
    /\ Len(h.Styles) > Cardinality(ValidLibraryPaths)
    /\ h.Styles[1] = "/app.css"
    /\ {h.Styles[i] : i \in 2..(Cardinality(ValidLibraryPaths) + 1)} = ValidLibraryPaths

\* The call returned an answer to a request that carried no If-None-Match.
Answered(rq) == rq.pc = "done" /\ rq.inm = ""

\* C18 as stated: after init the stylesheet list leads with /app.css and the
\* library mount paths, and a request to the mount path of any accepted
\* library is answered with the CSS of that library as text/css.
C18_EveryLibraryServed ==
    once.done =>
        /\ LibraryStylesLead
        /\ \A l \in ValidLibraries : \A rq \in InFlight :
              (Answered(rq) /\ rq.path = l.path) =>
                  /\ rq.w.status = StatusOK
                  /\ rq.w.body = l.styles
                  /\ Header(rq, "Content-Type") = "text/css"

\* The CSS of the last accepted library mounted on the path p.
LastLibraryOn(p) ==
    LET at == {i \in DOMAIN h.Libraries :
                 h.Libraries[i].path = p /\ h.Libraries[i] \in ValidLibraries}
    IN  h.Libraries[CHOOSE i \in at : \A j \in at : j <= i].styles

\* An earlier branch of ServeHTTP answers the path p.
Shadowed(p) ==
    \/ IsFileServer(h.Resources) /\ HasPrefix(p, "/web/")
    \/ p \in {"/app.wasm", "/goapp.wasm"}
    \/ p \in Keys(h.cachedPWAResources)
    \/ p \in Keys(h.proxyResources)

\* Every answer to a request for a library mount path that no earlier branch
\* takes is the CSS of the last library mounted there, as text/css; the
\* library branch answers no other request.
LibraryAnswers ==
    \A rq \in InFlight : Answered(rq) =>
        IF Normalised(rq) \in ValidLibraryPaths /\ ~Shadowed(Normalised(rq))
        THEN /\ rq.branches = {"library"}
             /\ rq.w.status = StatusOK
             /\ rq.w.body = LastLibraryOn(Normalised(rq))
             /\ Header(rq, "Content-Type") = "text/css"
             /\ Header(rq, "Content-Length") = ToString(Len(rq.w.body))
        ELSE "library" \notin rq.branches

\* Styles changes only by init putting /app.css and the mount paths, each
\* once and in some order, before what the list held.
StylesPrepended ==
    h'.Styles # h.Styles =>
        \E order \in Orders(ValidLibraryPaths) :
            h'.Styles = <<"/app.css">> \o order \o h.Styles

\* C18: after init the stylesheet list is /app.css, then the mount paths of
\* the accepted libraries (each once, in no fixed order), then the declared
\* styles; a request for a mount path that is not taken by static
\* delegation, the wasm alias, a PWA resource or a proxy resource is answered
\* with the CSS of the last library mounted there, as text/css.
C18_LibraryStylesAndAnswers ==
    /\ [](once.done => LibraryStylesLead)
    /\ []LibraryAnswers
    /\ [][StylesPrepended]_vars

\* /lib.css mounted twice: the request is answered with the CSS of the
\* second library, and the declared style is behind the mount paths.
C18_Witness ==
    /\ once.done
    /\ Cardinality({i \in DOMAIN h.Libraries : h.Libraries[i].path = "/lib.css"}) = 2
    /\ h.Styles[Len(h.Styles)] = "/web/main.css"
    /\ \E rq \in InFlight :
          /\ Answered(rq)
          /\ rq.path = "/v1/lib.css"
          /\ rq.branches = {"library"}
          /\ rq.w.body = "b{}"

----------------------------------------------------------------------------
(* Icons.                                                                  *)

\* The step of init that runs initIcon.
IconStep ==
    /\ \E rq \in InFlight : rq.pc = "init" /\ rq.step = 6
    /\ \E nr \in BagToSet(req') : nr.pc = "init" /\ nr.step = 7

\* C19 as stated: Icon{} becomes the two placeholders with Maskable equal to
\* Default; an unset Maskable becomes the Default; and Default and SVG are
\* replaced by their placeholders when both are unset and only then.
C19_PlaceholdersOnlyWhenBothUnset ==
    [][IconStep =>
        /\ h.Icon = [Default |-> "", Large |-> "", SVG |-> "", Maskable |-> ""] =>
              h'.Icon = [Default |-> DefaultIconPNG, Large |-> DefaultIconPNG,
                         SVG |-> DefaultIconSVG, Maskable |-> DefaultIconPNG]
        /\ h.Icon.Maskable = "" => h'.Icon.Maskable = h'.Icon.Default
        /\ IF h.Icon.Default = "" /\ h.Icon.SVG = ""
           THEN h'.Icon.Default = DefaultIconPNG /\ h'.Icon.SVG = DefaultIconSVG
           ELSE h'.Icon.Default = h.Icon.Default /\ h'.Icon.SVG = h.Icon.SVG]_vars

\* C19: with Icon{} init sets Default and Large to the placeholder PNG,
\* Maskable to Default and SVG to the placeholder SVG. In general Default
\* becomes the placeholder PNG whenever it is unset and SVG the placeholder
\* SVG whenever it is unset, each whatever the other is; an unset Maskable
\* becomes the Default after defaulting; a set Default, SVG or Maskable is
\* kept. No other step of init touches the icon.
C19_EachFieldDefaultsAlone ==
    [][IF IconStep
       THEN /\ h.Icon = [Default |-> "", Large |-> "", SVG |-> "", Maskable |-> ""] =>
                 h'.Icon = [Default |-> DefaultIconPNG, Large |-> DefaultIconPNG,
                            SVG |-> DefaultIconSVG, Maskable |-> DefaultIconPNG]
            /\ h'.Icon.Default =
                 IF h.Icon.Default = "" THEN DefaultIconPNG ELSE h.Icon.Default
            /\ h'.Icon.SVG = IF h.Icon.SVG = "" THEN DefaultIconSVG ELSE h.Icon.SVG
            /\ h'.Icon.Maskable =
                 IF h.Icon.Maskable = "" THEN h'.Icon.Default ELSE h.Icon.Maskable
       ELSE h'.Icon = h.Icon]_vars

\* initIcon has run on an icon with Default set and SVG unset: SVG is the
\* placeholder, Default and Maskable are the configured PNG.
C19_Witness ==
    /\ \E rq \in InFlight : rq.pc = "init" /\ rq.step = 7
    /\ h.Icon.Default = "/web/icon.png"
    /\ h.Icon.Maskable = "/web/icon.png"
    /\ h.Icon.Large = ""
    /\ h.Icon.SVG = DefaultIconSVG

----------------------------------------------------------------------------
(* Version prefix.                                                         *)

\* The path of the request leads with the version segment.
Versioned(rq) == HasPrefix(rq.path, "/" \o h.Version \o "/")

\* The calls ServeHTTP may make of the request of rq with the version
\* segment taken off its path.
Unversioned(rq) ==
    ServeHTTP(h, [NewRequest(TrimPrefix(rq.path, "/" \o h.Version), rq.inm)
                    EXCEPT !.seen = rq.seen])

\* C20: a request for "/" + Version + p is handled as the request for p is:
\* it takes the same dispatch branch, the file server or the page renderer
\* it reaches is given the path p, and outside the proxy branch (whose
\* answer is the upstream's) the response is one the request for p may get.
C20_VersionedHandledAsPlain ==
    \A rq \in InFlight : (rq.pc = "done" /\ Versioned(rq)) =>
        \E nr \in Unversioned(rq) :
            /\ nr.branches = rq.branches
            /\ "proxy" \notin rq.branches => nr.to = rq.to /\ nr.w = rq.w

----------------------------------------------------------------------------
(* Path aliases.                                                           *)

\* The path of the request with the version segment taken off.
Trimmed(rq) == trimVersion(h, rq.path)

\* The call was answered as a request for the path p with the same header
\* may be: same branch, same response.
AnsweredAs(rq, p) ==
    \E nr \in ServeHTTP(h, NewRequest(p, rq.inm)) :
        nr.pc = "done" /\ nr.branches = rq.branches /\ nr.w = rq.w

\* /goapp.js is answered as /app.js and /manifest.json as
\* /manifest.webmanifest.
RenamedAnswers ==
    \A rq \in InFlight : rq.pc = "done" =>
        /\ Trimmed(rq) = "/goapp.js" => AnsweredAs(rq, "/app.js")
        /\ Trimmed(rq) = "/manifest.json" => AnsweredAs(rq, "/manifest.webmanifest")

\* The call handed the request to the file server under the resolved wasm
\* path, or answered 404 for want of a file server; it did nothing else.
WasmHandled(rq) ==
    /\ rq.branches = {"wasm"}
    /\ IF IsFileServer(h.Resources)
       THEN /\ rq.did = {"delegate"}
            /\ rq.to = Resolve(h.Resources, "/web/app.wasm")
            /\ rq.w \in {FileServe(responseHeaders(h, NewWriter), rq.to, found) :
                             found \in BOOLEAN}
       ELSE /\ rq.did = {}
            /\ rq.to = ""
            /\ rq.w.status = StatusNotFound
            /\ rq.w.body = ""

\* C21 as stated: /goapp.js and /manifest.json are answered as /app.js and
\* /manifest.webmanifest; every request for /app.wasm or /goapp.wasm is
\* handed to the file server under Resolve("/web/app.wasm"), or answered 404
\* when the resolver serves no files, and reaches nothing else.
C21_EveryWasmRequestDelegated ==
    /\ RenamedAnswers
    /\ \A rq \in InFlight :
          (rq.pc = "done" /\ Trimmed(rq) \in {"/app.wasm", "/goapp.wasm"}) =>
              WasmHandled(rq)

\* C21: /goapp.js and /manifest.json are answered as /app.js and
\* /manifest.webmanifest; a request for /app.wasm or /goapp.wasm whose
\* If-None-Match is not the ETag is handed to the file server under
\* Resolve("/web/app.wasm"), or answered 404 when the resolver serves no
\* files, and one whose If-None-Match is the ETag is answered 304; neither
\* reaches a cache, the proxy table, the libraries or the page renderer.
C21_AliasesAfterETag ==
    /\ RenamedAnswers
    /\ \A rq \in InFlight :
          (rq.pc = "done" /\ Trimmed(rq) \in {"/app.wasm", "/goapp.wasm"}) =>
              /\ rq.did \subseteq {"delegate"}
              /\ IF rq.inm = h.etag
                 THEN rq.w.status = StatusNotModified /\ rq.to = ""
                 ELSE WasmHandled(rq)

\* /goapp.wasm behind the version, with a stale If-None-Match, was handed to
\* the file server as /web/app.wasm and found there.
C21_Witness ==
    \E rq \in InFlight :
        /\ rq.pc = "done"
        /\ rq.path = "/v1/goapp.wasm"
        /\ rq.inm = "\"da39\""
        /\ rq.to = "/web/app.wasm"
        /\ rq.w.status = StatusOK

----------------------------------------------------------------------------
(* The resource declaration parser.                                        *)

\* Where the tokens of v start: at a character that is no space and that
\* follows a space or opens the string.
Starts(v) ==
    {a \in 1..Len(v) : Char(v, a) # " " /\ (a = 1 \/ Char(v, a - 1) = " ")}

\* The token of v that starts at a, in lower case.
TokenAt(v, a) ==
    LET ends == {b \in a..Len(v) : b = Len(v) \/ Char(v, b + 1) = " "} IN
    ToLower(SubSeq(v, a, CHOOSE b \in ends : \A c \in ends : b <= c))

IsCrossOrigin(t) == t = "crossorigin" \/ HasPrefix(t, "crossorigin=")

IsLoadingMode(t) == t \in {"defer", "async"}

\* The last of the starts in S, 0 when there is none.
Last(S) == IF S = {} THEN 0 ELSE CHOOSE a \in S : \A b \in S : b <= a

\* What the declaration v stands for: the last token that is no modifier,
\* the last loading mode and the last cross-origin setting.
Declared(v) ==
    LET u == Last({a \in Starts(v) : ~IsCrossOrigin(TokenAt(v, a))
                                        /\ ~IsLoadingMode(TokenAt(v, a))})
        m == Last({a \in Starts(v) : IsLoadingMode(TokenAt(v, a))})
        c == Last({a \in Starts(v) : IsCrossOrigin(TokenAt(v, a))})
    IN  [URL         |-> IF u = 0 THEN "" ELSE TokenAt(v, u),
         LoadingMode |-> IF m = 0 THEN "" ELSE TokenAt(v, m),
         CrossOrigin |-> IF c = 0 THEN ""
                         ELSE IF TokenAt(v, c) = "crossorigin" THEN "true"
                         ELSE TrimPrefix(TokenAt(v, c), "crossorigin=")]

\* C22: for every space-separated declaration, parseHTTPResource returns as
\* URL the last token that is no modifier, in lower case, as LoadingMode the
\* last of defer and async, as CrossOrigin "true" for a bare crossorigin or
\* the value behind "crossorigin=", the last one winning; empty tokens count
\* for nothing, the result is the same before init and after it, and
\* "https://x.test/a.js crossorigin async" gives that URL, "true" and async.
C22_ParsesDeclaration ==
    /\ (nInit = 0 \/ once.done) =>
          \A v \in Range(h.Scripts) : parseHTTPResource(v) = Declared(v)
    /\ parseHTTPResource("https://x.test/a.js crossorigin async") =
          [URL |-> "https://x.test/a.js", LoadingMode |-> "async", CrossOrigin |-> "true"]

\* init has parsed a declaration of two URLs, the second in upper case: the
\* second is the URL, in lower case.
C22_Witness ==
    /\ once.done
    /\ WorkerBuilt
    /\ \E v \in Range(h.Scripts) :
          /\ Cardinality(Starts(v)) = 2
          /\ TokenAt(v, 1) = "https://x.test/a.js"
          /\ parseHTTPResource(v) =
                [URL |-> "/web/b.js", LoadingMode |-> "", CrossOrigin |-> ""]

----------------------------------------------------------------------------
(* What requests leave alone.                                              *)

\* init has run to its last step.
InitCompleted == once.done /\ h.proxyResources # Nil

\* The step changes nothing of the handler but the proxy cache.
OnlyProxyCacheChanges ==
    h' = [h EXCEPT !.cachedProxyResources = h'.cachedProxyResources]

\* The proxy cache keeps every path it holds.
ProxyCacheKeepsPaths ==
    Keys(h.cachedProxyResources) \subseteq Keys(h'.cachedProxyResources)

\* C23: once init has completed, no step of any request changes the
\* version, the etag, the libraries, the proxy table, the stylesheet list or
\* the PWA cache, which holds its five entries; a step changes at most the
\* proxy cache, which gains an entry or has one overwritten and loses none.
C23_RequestsChangeProxyCacheOnly ==
    /\ [](InitCompleted =>
            Keys(h.cachedPWAResources) =
                {"/wasm_exec.js", "/app.js", "/app-worker.js",
                 "/manifest.webmanifest", "/app.css"})
    /\ [][InitCompleted =>
            /\ OnlyProxyCacheChanges
            /\ ProxyCacheKeepsPaths
            /\ h'.Version = h.Version /\ h'.etag = h.etag
            /\ h'.libraries = h.libraries /\ h'.proxyResources = h.proxyResources
            /\ h'.Styles = h.Styles
            /\ h'.cachedPWAResources = h.cachedPWAResources]_vars

\* After init completed, requests of every outcome were served and the item
\* the proxy cache had gained for /robots.txt was overwritten by a later one.
C23_Witness ==
    /\ InitCompleted
    /\ "/robots.txt" \in DOMAIN first
    /\ CacheHas(h.cachedProxyResources, "/robots.txt")
    /\ h.cachedProxyResources["/robots.txt"] # first["/robots.txt"]
    /\ \E rq \in InFlight : rq.pc = "done" /\ "set" \in rq.did

----------------------------------------------------------------------------
(* What the proxy cache holds.                                             *)

\* The call has gone to the upstream or written the proxy cache.
WentUpstream(rq) ==
    rq.pc \in {"fetch", "store"} \/ rq.did \cap {"fetch", "set"} # {}

\* Every entry of the proxy cache is filed under its own path, a path of the
\* proxy table and not of the PWA cache, and is a complete upstream 200.
ProxyCacheWellKeyed ==
    \A p \in Keys(h.cachedProxyResources) :
        /\ p \in Keys(h.proxyResources)
        /\ p \notin Keys(h.cachedPWAResources)
        /\ h.cachedProxyResources[p].Path = p
        /\ \E i \in UpstreamItems :
              h.cachedProxyResources[p] =
                  cacheItem(p, i.ContentType, i.ContentEncoding, i.Body)

\* A step that changes the proxy cache is the return of a call whose
\* upstream answered 200 and was read to the end, and it files the item of
\* that call under the path the call was dispatched for.
WriteIsOfAccepted ==
    (h.cachedProxyResources # Nil
        /\ h'.cachedProxyResources # h.cachedProxyResources) =>
        \E nr \in BagToSet(req') :
            /\ nr.pc = "done" /\ nr.up = "ok" /\ "set" \in nr.did
            /\ CopiesIn(nr, req') > CopiesIn(nr, req)
            /\ h'.cachedProxyResources = CacheSet(h.cachedProxyResources, nr.item)
            /\ nr.item.Path = Normalised(nr)

\* C24: in every reachable state every entry of the proxy cache is keyed by
\* a public path of the proxy table, never by a key of the PWA cache, and
\* was built from an upstream 200 whose body was read completely; a call
\* fetches upstream or writes the proxy cache only for a path of the table.
C24_ProxyCacheHoldsTablePathsOnly ==
    /\ [](ProxyCacheWellKeyed
            /\ \A rq \in InFlight : WentUpstream(rq) =>
                  /\ Normalised(rq) \in Keys(h.proxyResources)
                  /\ rq.res = Normalised(rq))
    /\ [][WriteIsOfAccepted]_vars

\* A request for /robots.txt behind the version was fetched from an
\* upstream 200 and filed under /robots.txt, the one entry of the cache.
C24_Witness ==
    /\ \E rq \in InFlight :
          /\ rq.pc = "done" /\ rq.path = "/v1/robots.txt" /\ "set" \in rq.did
          /\ rq.up = "ok"
          /\ h.cachedProxyResources["/robots.txt"] = rq.item
    /\ Keys(h.cachedProxyResources) = {"/robots.txt"}

----------------------------------------------------------------------------
(* Icons the application set.                                              *)

\* C25: init only fills the icon fields that are unset: no step changes a
\* field of Icon that holds a value, so each of Default, Large, SVG and
\* Maskable the application set has that value after init.
C25_SetIconFieldsKept ==
    [][\A f \in {"Default", "Large", "SVG", "Maskable"} :
          h.Icon[f] # "" => h'.Icon[f] = h.Icon[f]]_vars

====
